---- MODULE Spec2Model ----
(***************************************************************************)
(* Calendar Satisfaction Problem solver (src/csp_solver.py): node           *)
(* consistency, arc consistency (AC-3) and the recursive backtracker.       *)
(*                                                                          *)
(* Datetimes are modelled as the integers 1..MaxDate (only their order and  *)
(* equality are used by the solver).  Python objects that the solver        *)
(* mutates in place (the caller's date_range set and the per-variable       *)
(* domain sets) live in `heap`, and `domains` is the list of references to  *)
(* them, so that sharing one set between two variables is expressible.      *)
(* Python indices are 0-based: meeting i is domains[i + 1] here.            *)
(***************************************************************************)
EXTENDS Integers, Sequences, FiniteSets, TLC

\* ------------------------------------------------------------------ bounds
MaxMeetings == 3
MaxDate == 2
MaxConstraints == 2
MaxCalls == 2
MaxLen == 3
MaxDepth == 3

Dates == 1..MaxDate

\* ------------------------------------------------- DateConstraint (import)
\* The operators a DateConstraint may carry.
Ops == {"==", "!=", "<", "<=", ">", ">="}

\* The comparison an operator string stands for.
EvalOp(op, a, b) ==
    CASE op = "==" -> a = b
      [] op = "!=" -> a # b
      [] op = "<"  -> a < b
      [] op = "<=" -> a <= b
      [] op = ">"  -> a > b
      [] op = ">=" -> a >= b

\* The operator with its argument order swapped.
FlipOp(op) ==
    CASE op = "==" -> "=="
      [] op = "!=" -> "!="
      [] op = "<"  -> ">"
      [] op = "<=" -> ">="
      [] op = ">"  -> "<"
      [] op = ">=" -> "<="

\* A unary constraint compares meeting L_VAL with the date R_VAL.
UnaryConstraint(l, op, d) == [L_VAL |-> l, OP |-> op, R_VAL |-> d, ARITY |-> 1]

\* A binary constraint compares meeting L_VAL with meeting R_VAL.
BinaryConstraint(l, op, r) == [L_VAL |-> l, OP |-> op, R_VAL |-> r, ARITY |-> 2]

arity(c) == c.ARITY

\* Whether R_VAL is an int: a binary constraint's R_VAL is a meeting index,
\* a unary constraint's R_VAL is a datetime.
R_VAL_is_int(c) == c.ARITY = 2

\* get_reverse: L_VAL and R_VAL swapped, argument order of the check swapped.
get_reverse(c) == BinaryConstraint(c.R_VAL, FlipOp(c.OP), c.L_VAL)

\* is_satisfied_by_values on one value (unary constraints).
is_satisfied_by_value(c, left) == EvalOp(c.OP, left, c.R_VAL)

\* is_satisfied_by_values on a (left, right) pair (binary constraints).
is_satisfied_by_values(c, left, right) == EvalOp(c.OP, left, right)

\* is_satisfied_by_assignment: a variable index beyond the assignment's
\* current length is not yet constraining.
is_satisfied_by_assignment(c, asg) ==
    IF c.ARITY = 1
    THEN c.L_VAL >= Len(asg) \/ EvalOp(c.OP, asg[c.L_VAL + 1], c.R_VAL)
    ELSE \/ c.L_VAL >= Len(asg)
         \/ c.R_VAL >= Len(asg)
         \/ EvalOp(c.OP, asg[c.L_VAL + 1], asg[c.R_VAL + 1])

\* ------------------------------------------------------------------ inputs
\* Operators the callers of this model put into constraints.
UnaryInputOps == {"!="}
BinaryInputOps == {"<", "!="}

\* Every constraint over meetings 0..n-1 the model may be given: any meeting
\* compared with any date, and each meeting compared with its successor in
\* the ring 0, 1, ..., n-1, 0 (chains, cycles and, for n = 1, a constraint of
\* a meeting with itself).
ConstraintUniverse(n) ==
    {UnaryConstraint(l, op, d) : l \in 0..(n - 1), op \in UnaryInputOps, d \in Dates}
    \cup
    {BinaryConstraint(l, op, (l + 1) % n) : l \in 0..(n - 1), op \in BinaryInputOps}

\* The subsets of S with at most k elements.
RECURSIVE SubsetsUpTo(_, _)
SubsetsUpTo(S, k) ==
    IF k = 0 \/ S = {} THEN {{}}
    ELSE LET x == CHOOSE y \in S : TRUE
             rest == S \ {x}
         IN  SubsetsUpTo(rest, k) \cup {T \cup {x} : T \in SubsetsUpTo(rest, k - 1)}

ConstraintSets(n) == SubsetsUpTo(ConstraintUniverse(n), MaxConstraints)

\* The date ranges the model may be given: the first k dates, for every k
\* (unary constraints cut further dates out of single domains).
DateRanges == {1..k : k \in 0..MaxDate}

\* ------------------------------------------------------------------- state
VARIABLES
    pc,             \* position in the code
    n_meetings,     \* solve's n_meetings
    constraints,    \* the set of DateConstraints
    heap,           \* object id -> set of dates; object 0 is date_range
    domains,        \* list of object ids, one per meeting
    index,          \* node_consistency's index
    arcs,           \* arc_consistency's worklist
    original_arcs,  \* arc_consistency's reference copy of the arcs
    assignment,     \* the backtracker's assignment list
    frames,         \* one record per active recursive_backtracker loop
    solution,       \* what solve returns
    caller,         \* who called the filtering function: "solve" or "test"
    calls,          \* number of filtering calls a test has made
    entry_domains,  \* the contents of the domains when the running filter was called
    args,           \* the arguments of a function called on its own
    result          \* what that function returned

vars == <<pc, n_meetings, constraints, heap, domains, index, arcs,
          original_arcs, assignment, frames, solution, caller, calls,
          entry_domains, args, result>>

\* The three last variables while no function is called on its own.
NoCall == args = <<>> /\ result = <<>>

\* The set object the caller passed as date_range.
date_range == heap[0]

\* The set domains[i] refers to (i is the 0-based meeting index).
Domain(i) == heap[domains[i + 1]]

Meetings == 0..(Len(domains) - 1)

None == [isNone |-> TRUE, value |-> <<>>]
Some(asg) == [isNone |-> FALSE, value |-> asg]

\* The contents of every domain, as a list of sets.
Contents(h, ds) == [i \in 1..Len(ds) |-> h[ds[i]]]

\* ------------------------------------------------------------------- solve
\* [date_range for num in range(n_meetings)]: every domain is the caller's
\* set itself.
ShareDateRange(h, n) ==
    [heap    |-> h,
     domains |-> [i \in 1..n |-> 0]]

\* [date_range.copy() for num in range(n_meetings)]: n fresh set objects,
\* numbered 1..n, each holding the dates of date_range.
CopyDomains(h, n) ==
    [heap    |-> [o \in 0..n |-> h[0]],
     domains |-> [i \in 1..n |-> i]]

Init ==
    /\ pc = "solve"
    /\ n_meetings \in 0..MaxMeetings
    /\ constraints \in ConstraintSets(n_meetings)
    /\ \E R \in DateRanges : heap = (0 :> R)
    /\ domains = <<>>
    /\ index = 0
    /\ arcs = {}
    /\ original_arcs = {}
    /\ assignment = <<>>
    /\ frames = <<>>
    /\ solution = Some(<<>>)
    /\ caller = "solve"
    /\ calls = 0
    /\ entry_domains = <<>>
    /\ NoCall

\* solve, up to its call of node_consistency.
SolveEntry ==
    /\ pc = "solve"
    /\ LET made == CopyDomains(heap, n_meetings)
       IN  /\ heap' = made.heap
           /\ domains' = made.domains
           /\ entry_domains' = Contents(made.heap, made.domains)
    /\ assignment' = <<>>
    /\ solution' = Some(<<>>)
    /\ index' = 0
    /\ pc' = "node"
    /\ UNCHANGED <<n_meetings, constraints, arcs, original_arcs, frames,
                   caller, calls,
                   args, result>>

\* -------------------------------------------------------- node consistency
unary_constraints(cs) == {c \in cs : arity(c) = 1}

\* node_consistency's inner loops without the test `L_VAL == index`.
NodeFilterAnyVariable(domain, i, cs) ==
    {date \in domain :
        ~ \E u \in unary_constraints(cs) : ~ is_satisfied_by_value(u, date)}

\* The dates of one domain that survive node_consistency's inner loops for
\* the meeting at `i`.
NodeFilter(domain, i, cs) ==
    {date \in domain :
        ~ \E u \in unary_constraints(cs) :
              u.L_VAL = i /\ ~ is_satisfied_by_value(u, date)}

\* One iteration of `for domain in domains`.
NodeStep ==
    /\ pc = "node"
    /\ index < Len(domains)
    /\ heap' = [heap EXCEPT ![domains[index + 1]] = NodeFilter(@, index, constraints)]
    /\ index' = index + 1
    /\ UNCHANGED <<pc, n_meetings, constraints, domains, arcs, original_arcs,
                   assignment, frames, solution, caller, calls, entry_domains,
                   args, result>>

\* node_consistency returns; solve goes on to call arc_consistency.
NodeReturn ==
    /\ pc = "node"
    /\ index = Len(domains)
    /\ pc' = IF caller = "solve" THEN "arc" ELSE "idle"
    /\ UNCHANGED <<n_meetings, constraints, heap, domains, index, arcs,
                   original_arcs, assignment, frames, solution, caller, calls,
                   entry_domains,
                   args, result>>

\* --------------------------------------------------------- arc consistency
\* Arc.__init__ with the two ends taken from the wrong fields.
ArcEndsSwapped(c) == [CONSTRAINT |-> c, TAIL |-> c.R_VAL, HEAD |-> c.L_VAL]

\* Arc.__init__ on a binary constraint.
Arc(c) == [CONSTRAINT |-> c, TAIL |-> c.L_VAL, HEAD |-> c.R_VAL]

\* Arc.__init__ building an Arc whatever R_VAL is.
ArcInitNeverRaises(c) == [raised |-> FALSE, made |-> {Arc(c)}]

\* Arc.__init__ on any constraint: the Arc made, or the ValueError raised
\* when R_VAL is not an int (no Arc is made then).
ArcInit(c) ==
    IF R_VAL_is_int(c)
    THEN [raised |-> FALSE, made |-> {Arc(c)}]
    ELSE [raised |-> TRUE, made |-> {}]

\* The arc set without the reverse arcs.
BuildArcsForwardOnly(cs) == {Arc(c) : c \in {x \in cs : arity(x) = 2}}

\* The arc set arc_consistency builds: both directions of every binary
\* constraint.
BuildArcs(cs) ==
    UNION {{Arc(c), Arc(get_reverse(c))} : c \in {x \in cs : arity(x) = 2}}

\* The orders in which a set may be iterated.
Orderings(S) ==
    {o \in [1..Cardinality(S) -> S] : \A i, j \in DOMAIN o : i # j => o[i] # o[j]}

\* The loop keeping a date only if every date of the head's domain
\* satisfies the constraint with it.
RECURSIVE RemoveLoopNeedsAll(_, _, _, _, _)
RemoveLoopNeedsAll(h, tail, head, c, order) ==
    IF order = <<>> THEN h
    ELSE LET tail_date == Head(order)
             consistent == \A head_date \in h[head] :
                               is_satisfied_by_values(c, tail_date, head_date)
         IN  RemoveLoopNeedsAll(IF consistent THEN h
                                ELSE [h EXCEPT ![tail] = @ \ {tail_date}],
                                tail, head, c, Tail(order))

\* The loop with the removal written against the head's domain:
\* domains[arc.TAIL] = domains[arc.HEAD] - {tail_date}.
RECURSIVE RemoveLoopFromHead(_, _, _, _, _)
RemoveLoopFromHead(h, tail, head, c, order) ==
    IF order = <<>> THEN h
    ELSE LET tail_date == Head(order)
             consistent == \E head_date \in h[head] :
                               is_satisfied_by_values(c, tail_date, head_date)
         IN  RemoveLoopFromHead(IF consistent THEN h
                                ELSE [h EXCEPT ![tail] = h[head] \ {tail_date}],
                                tail, head, c, Tail(order))

\* The loop of remove_inconsistent_values over the copied tail domain, taken
\* in the order `order`; the head domain is read live.
RECURSIVE RemoveLoop(_, _, _, _, _)
RemoveLoop(h, tail, head, c, order) ==
    IF order = <<>> THEN h
    ELSE LET tail_date == Head(order)
             consistent == \E head_date \in h[head] :
                               is_satisfied_by_values(c, tail_date, head_date)
         IN  RemoveLoop(IF consistent THEN h
                        ELSE [h EXCEPT ![tail] = @ \ {tail_date}],
                        tail, head, c, Tail(order))

\* remove_inconsistent_values: the heap afterwards and the returned flag.
remove_inconsistent_values(h, ds, a, order) ==
    LET after == RemoveLoop(h, ds[a.TAIL + 1], ds[a.HEAD + 1], a.CONSTRAINT, order)
    IN  [heap |-> after, removed |-> after[ds[a.TAIL + 1]] # h[ds[a.TAIL + 1]]]

\* The re-enqueue without the test of remove_inconsistent_values' result.
RequeueAlways(orig, popped, removed) == {a \in orig : a.HEAD = popped.TAIL}

\* The re-enqueue lookup matching on the popped arc's HEAD instead of its TAIL.
RequeueByHead(orig, popped, removed) ==
    IF removed THEN {a \in orig : a.HEAD = popped.HEAD} ELSE {}

\* The re-enqueue putting back only the reverse of the popped arc.
RequeueOnlyReverse(orig, popped, removed) ==
    IF removed
    THEN {a \in orig : a.HEAD = popped.TAIL /\ a.TAIL = popped.HEAD}
    ELSE {}

\* The loop body without the re-enqueue.
RequeueNever(orig, popped, removed) == {}

\* The arcs put back on the worklist after `arc` was revised.
Requeue(orig, popped, removed) ==
    IF removed THEN {a \in orig : a.HEAD = popped.TAIL} ELSE {}

\* arc_consistency up to its while loop.
ArcBuild ==
    /\ pc = "arc"
    /\ arcs' = BuildArcs(constraints)
    /\ original_arcs' = BuildArcs(constraints)
    /\ entry_domains' = Contents(heap, domains)
    /\ pc' = "arc_loop"
    /\ UNCHANGED <<n_meetings, constraints, heap, domains, index, assignment,
                   frames, solution, caller, calls,
                   args, result>>

\* One iteration of `while len(arcs) > 0`.
ArcStep ==
    /\ pc = "arc_loop"
    /\ arcs # {}
    /\ \E popped \in arcs :
       \E order \in Orderings(heap[domains[popped.TAIL + 1]]) :
          LET r == remove_inconsistent_values(heap, domains, popped, order)
          IN  /\ heap' = r.heap
              /\ arcs' = (arcs \ {popped}) \cup Requeue(original_arcs, popped, r.removed)
    /\ UNCHANGED <<pc, n_meetings, constraints, domains, index, original_arcs,
                   assignment, frames, solution, caller, calls, entry_domains,
                   args, result>>

\* arc_consistency returns; solve goes on to call recursive_backtracker.
ArcReturn ==
    /\ pc = "arc_loop"
    /\ arcs = {}
    /\ pc' = IF caller = "solve" THEN "bt_call" ELSE "idle"
    /\ UNCHANGED <<n_meetings, constraints, heap, domains, index, arcs,
                   original_arcs, assignment, frames, solution, caller, calls,
                   entry_domains,
                   args, result>>

\* ------------------------------------------------------------ backtracking
is_complete(asg, ds, cs) ==
    /\ Len(asg) = Len(ds)
    /\ \A c \in cs : is_satisfied_by_assignment(c, asg)

\* The consistency check of the loop body on the extended assignment.
consistent_with(asg, cs) == \A c \in cs : is_satisfied_by_assignment(c, asg)

\* Entry of recursive_backtracker: either the assignment is complete and is
\* returned, or the loop over domains[len(assignment)] starts.
BtCall ==
    /\ pc = "bt_call"
    /\ IF is_complete(assignment, domains, constraints)
       THEN /\ pc' = "bt_return"
            /\ frames' = frames
       ELSE /\ pc' = IF Len(assignment) < Len(domains) THEN "bt_loop" ELSE "raised"
            /\ frames' = IF Len(assignment) < Len(domains)
                          THEN Append(frames, [todo |-> Domain(Len(assignment)),
                                               entry |-> assignment])
                          ELSE frames
    /\ UNCHANGED <<n_meetings, constraints, heap, domains, index, arcs,
                   original_arcs, assignment, solution, caller, calls,
                   entry_domains,
                   args, result>>

\* The innermost frame with `date` taken off the dates still to try.
Taken(fs, date) == [fs EXCEPT ![Len(fs)].todo = @ \ {date}]

\* The loop body without `assignment.pop()` after a failed check.
BtTryNoPop ==
    /\ pc = "bt_loop"
    /\ \E date \in frames[Len(frames)].todo :
          /\ frames' = Taken(frames, date)
          /\ assignment' = Append(assignment, date)
          /\ pc' = IF consistent_with(Append(assignment, date), constraints)
                   THEN "bt_call" ELSE "bt_loop"
    /\ UNCHANGED <<n_meetings, constraints, heap, domains, index, arcs,
                   original_arcs, solution, caller, calls, entry_domains,
                   args, result>>

\* The loop body recursing without the consistency check.
BtTryNoCheck ==
    /\ pc = "bt_loop"
    /\ \E date \in frames[Len(frames)].todo :
          /\ frames' = Taken(frames, date)
          /\ assignment' = Append(assignment, date)
          /\ pc' = "bt_call"
    /\ UNCHANGED <<n_meetings, constraints, heap, domains, index, arcs,
                   original_arcs, solution, caller, calls, entry_domains,
                   args, result>>

\* One iteration of `for date in domains[variable]`: append, check, then
\* recurse or pop.
BtTry ==
    /\ pc = "bt_loop"
    /\ \E date \in frames[Len(frames)].todo :
          /\ frames' = Taken(frames, date)
          /\ IF consistent_with(Append(assignment, date), constraints)
             THEN /\ assignment' = Append(assignment, date)
                  /\ pc' = "bt_call"
             ELSE /\ assignment' = assignment
                  /\ pc' = "bt_loop"
    /\ UNCHANGED <<n_meetings, constraints, heap, domains, index, arcs,
                   original_arcs, solution, caller, calls, entry_domains,
                   args, result>>

\* The exhausted loop ending in `return assignment`.
BtExhaustedReturnsList ==
    /\ pc = "bt_loop"
    /\ frames[Len(frames)].todo = {}
    /\ frames' = SubSeq(frames, 1, Len(frames) - 1)
    /\ IF Len(frames) = 1
       THEN /\ solution' = Some(assignment)
            /\ assignment' = assignment
            /\ pc' = "done"
       ELSE /\ solution' = solution
            /\ assignment' = SubSeq(assignment, 1, Len(assignment) - 1)
            /\ pc' = "bt_loop"
    /\ UNCHANGED <<n_meetings, constraints, heap, domains, index, arcs,
                   original_arcs, caller, calls, entry_domains,
                   args, result>>

\* The exhausted loop whose caller keeps the date it appended.
BtExhaustedKeepsDate ==
    /\ pc = "bt_loop"
    /\ frames[Len(frames)].todo = {}
    /\ frames' = SubSeq(frames, 1, Len(frames) - 1)
    /\ IF Len(frames) = 1
       THEN /\ solution' = None
            /\ pc' = "done"
       ELSE /\ solution' = solution
            /\ pc' = "bt_loop"
    /\ UNCHANGED <<n_meetings, constraints, heap, domains, index, arcs,
                   original_arcs, assignment, caller, calls, entry_domains,
                   args, result>>

\* The loop is exhausted: return None.  The caller's loop pops the date it
\* appended; solve returns None when the outermost call is exhausted.
BtExhausted ==
    /\ pc = "bt_loop"
    /\ frames[Len(frames)].todo = {}
    /\ frames' = SubSeq(frames, 1, Len(frames) - 1)
    /\ IF Len(frames) = 1
       THEN /\ solution' = None
            /\ assignment' = assignment
            /\ pc' = "done"
       ELSE /\ solution' = solution
            /\ assignment' = SubSeq(assignment, 1, Len(assignment) - 1)
            /\ pc' = "bt_loop"
    /\ UNCHANGED <<n_meetings, constraints, heap, domains, index, arcs,
                   original_arcs, caller, calls, entry_domains,
                   args, result>>

\* The callers popping their date before they return the list.
BtReturnAfterPop ==
    /\ pc = "bt_return"
    /\ solution' = Some(SubSeq(assignment, 1, Len(assignment) - Len(frames)))
    /\ frames' = <<>>
    /\ pc' = "done"
    /\ UNCHANGED <<n_meetings, constraints, heap, domains, index, arcs,
                   original_arcs, assignment, caller, calls, entry_domains,
                   args, result>>

\* The innermost call returned the complete assignment: every caller on
\* the stack returns `assignment` in turn, without touching it, and solve
\* returns it.
BtReturn ==
    /\ pc = "bt_return"
    /\ solution' = Some(assignment)
    /\ frames' = <<>>
    /\ pc' = "done"
    /\ UNCHANGED <<n_meetings, constraints, heap, domains, index, arcs,
                   original_arcs, assignment, caller, calls, entry_domains,
                   args, result>>

Next ==
    \/ SolveEntry
    \/ NodeStep
    \/ NodeReturn
    \/ ArcBuild
    \/ ArcStep
    \/ ArcReturn
    \/ BtCall
    \/ BtTry
    \/ BtExhausted
    \/ BtReturn

Spec == Init /\ [][Next]_vars

\* solve runs on one thread with no suspension points: it keeps taking its
\* next step for as long as it has one.
SpecFair == Spec /\ WF_vars(Next)

\* ----------------------------------------------------------------- claims
\* The complete assignments of dates of date_range to the n_meetings
\* meetings that satisfy every constraint.
Solutions ==
    {a \in [1..n_meetings -> date_range] :
        \A c \in constraints : is_satisfied_by_assignment(c, a)}

\* The binary constraints among the given ones.
BinaryConstraints == {c \in constraints : c.ARITY = 2}

\* C1 (soundness of solve): whenever solve returns a value other than None,
\* it is a list of exactly n_meetings dates, each drawn from date_range, and
\* every constraint is satisfied by the full list.
C1_SolveSound ==
    (pc = "done" /\ ~ solution.isNone) =>
        /\ Len(solution.value) = n_meetings
        /\ \A k \in 1..Len(solution.value) : solution.value[k] \in date_range
        /\ \A c \in constraints : is_satisfied_by_assignment(c, solution.value)

\* solve has returned a schedule of three meetings under two constraints,
\* one of them binary.
C1_Witness ==
    /\ pc = "done"
    /\ ~ solution.isNone
    /\ Len(solution.value) = 3
    /\ Cardinality(constraints) = 2
    /\ BinaryConstraints # {}

\* C2 (completeness of solve): when some assignment of date_range values to
\* the n_meetings meetings satisfies every constraint, solve does not
\* return None.
C2_SolveComplete ==
    (pc = "done" /\ Solutions # {}) => ~ solution.isNone

\* solve has returned a schedule for a satisfiable input in which some
\* assignments violate a binary constraint and filtering pruned a domain.
C2_Witness ==
    /\ pc = "done"
    /\ Solutions # {}
    /\ ~ solution.isNone
    /\ BinaryConstraints # {}
    /\ \E i \in Meetings : Domain(i) # date_range

Filtering == pc \in {"node", "arc", "arc_loop"}

\* C4 (filtering preserves solutions): at every point of node_consistency
\* and arc_consistency, and afterwards, every value that some solution gives
\* to meeting i is still in domains[i]; so a value is removed only if no
\* solution uses it.
C4_FilteringKeepsSolutions ==
    (pc # "solve") =>
        \A a \in Solutions : \A i \in Meetings : a[i + 1] \in Domain(i)

\* Both passes are over, a solution exists, and arc consistency removed a
\* date that node consistency had left in a domain.
C4_Witness ==
    /\ pc = "bt_call"
    /\ Solutions # {}
    /\ \E i \in Meetings : Domain(i) # entry_domains[i + 1]

\* In the list of sets `doms`, every date of meeting `tail` has a partner
\* among the dates of meeting `head` with which the check `ok` holds.
Supported(doms, tail, head, ok(_, _)) ==
    \A v \in doms[tail + 1] : \E w \in doms[head + 1] : ok(v, w)

\* `doms` is arc-consistent for the given constraints: for every binary
\* constraint every date of its left meeting has a date of the right meeting
\* satisfying the constraint (forward direction), and every date of its
\* right meeting has such a date of the left meeting (reverse direction).
ArcConsistent(doms) ==
    \A c \in BinaryConstraints :
        LET forward(v, w) == EvalOp(c.OP, v, w)
            reverse(v, w) == EvalOp(c.OP, w, v)
        IN  /\ Supported(doms, c.L_VAL, c.R_VAL, forward)
            /\ Supported(doms, c.R_VAL, c.L_VAL, reverse)

\* C5 (postcondition of arc_consistency): when the worklist is empty, the
\* domains are arc-consistent for every binary constraint, in its forward
\* and in its reverse direction.
C5_ArcConsistentAtReturn ==
    (pc = "arc_loop" /\ arcs = {}) => ArcConsistent(Contents(heap, domains))

\* arc_consistency is about to return after pruning two different domains,
\* none of them to the empty set.
C5_Witness ==
    /\ pc = "arc_loop"
    /\ arcs = {}
    /\ Cardinality({i \in Meetings : Domain(i) # entry_domains[i + 1]}) >= 2
    /\ \A i \in Meetings : Domain(i) # {}

\* C6 (postcondition of node_consistency): a domain already visited holds
\* exactly the dates it held at the call on which every unary constraint
\* with L_VAL = i is satisfied; a domain not yet visited is as it was.  At
\* the return (index = len(domains)) every domain has been visited.
C6_NodeConsistencyExact ==
    (pc = "node") =>
        \A i \in Meetings :
            Domain(i) =
                IF i < index
                THEN {v \in entry_domains[i + 1] :
                        \A c \in constraints :
                            (c.ARITY = 1 /\ c.L_VAL = i) => EvalOp(c.OP, v, c.R_VAL)}
                ELSE entry_domains[i + 1]

\* node_consistency is about to return, having pruned the domain of one
\* meeting and left that of another meeting whole, with a binary
\* constraint among the given ones.
C6_Witness ==
    /\ pc = "node"
    /\ index = Len(domains)
    /\ \E i, j \in Meetings :
          /\ Domain(i) # entry_domains[i + 1]
          /\ Domain(j) = entry_domains[j + 1]
          /\ Domain(j) # {}
    /\ BinaryConstraints # {}

\* C7 (no aliasing): the domains are distinct set objects, none of them the
\* caller's date_range; no step changes date_range, and a filtering step
\* that changes domains[i] leaves every other domain as it was.
C7_NoAliasing ==
    /\ [](\A i, j \in 1..Len(domains) :
             domains[i] # 0 /\ (i # j => domains[i] # domains[j]))
    /\ [][/\ heap'[0] = heap[0]
          /\ Filtering =>
                \A i, j \in Meetings :
                    (i # j /\ Domain(i)' # Domain(i)) => Domain(j)' = Domain(j)]_vars

\* Filtering has removed a date from one domain while another domain and
\* date_range still hold it.
C7_Witness ==
    /\ pc = "arc_loop"
    /\ \E i, j \in Meetings : \E d \in date_range :
          d \notin Domain(i) /\ d \in Domain(j)

\* C8 (AC-3 terminates): whichever arc is popped at each step, the worklist
\* loop of arc_consistency reaches an empty worklist.
C8_WorklistEmpties ==
    (pc = "arc_loop") ~> (pc = "arc_loop" /\ arcs = {})

\* The worklist is empty after four arcs were revised until a domain that
\* held dates at the call has none left.
C8_Witness ==
    /\ pc = "arc_loop"
    /\ arcs = {}
    /\ Cardinality(original_arcs) = 4
    /\ \E i \in Meetings : Domain(i) = {} /\ entry_domains[i + 1] # {}

\* C9 (arc-consistency idempotence): a run of arc_consistency that was
\* called on arc-consistent domains leaves every domain as it was.
C9_ArcConsistencyIdempotent ==
    (pc = "arc_loop" /\ ArcConsistent(entry_domains)) =>
        Contents(heap, domains) = entry_domains

\* A second run of arc_consistency has emptied its worklist; it was called
\* on the arc-consistent domains the first run had pruned.
C9_Witness ==
    /\ pc = "arc_loop"
    /\ arcs = {}
    /\ calls = 2
    /\ original_arcs # {}
    /\ ArcConsistent(entry_domains)
    /\ \E i \in Meetings : entry_domains[i + 1] \notin {{}, date_range}

\* C10 (monotonicity): no step of node_consistency or arc_consistency adds
\* a date to a domain.
C10_DomainsOnlyShrink ==
    [][Filtering => \A i \in Meetings : Domain(i)' \subseteq Domain(i)]_vars

\* Both passes have removed dates: node consistency from one domain, arc
\* consistency from another.
C10_Witness ==
    /\ pc = "arc_loop"
    /\ arcs = {}
    /\ \E i, j \in Meetings :
          /\ entry_domains[i + 1] # date_range
          /\ entry_domains[j + 1] = date_range
          /\ Domain(j) # entry_domains[j + 1]
          /\ Domain(j) # {}

\* Two meetings over the two dates 1 (Jan 1) and 2 (Jan 2) with the single
\* constraint meeting 0 < meeting 1.
Scenario2 ==
    /\ n_meetings = 2
    /\ date_range = {1, 2}
    /\ constraints = {BinaryConstraint(0, "<", 1)}

\* C12 (concrete scenario 2): in that scenario arc_consistency is called on
\* two whole domains and leaves domain 0 = {Jan 1} and domain 1 = {Jan 2},
\* and solve returns [Jan 1, Jan 2].
C12_Scenario2 ==
    Scenario2 =>
        /\ (pc = "arc_loop" /\ arcs = {}) =>
              /\ entry_domains = <<{1, 2}, {1, 2}>>
              /\ Contents(heap, domains) = <<{1}, {2}>>
        /\ (pc = "done") => solution = Some(<<1, 2>>)

\* solve has returned [Jan 1, Jan 2] in that scenario.
C12_Witness ==
    /\ Scenario2
    /\ pc = "done"
    /\ solution = Some(<<1, 2>>)
    /\ Contents(heap, domains) = <<{1}, {2}>>

\* C18 (re-enqueue rule): an iteration of the while loop pops an arc of the
\* worklist and revises its tail's domain only; if the revision removed a
\* value from the tail's domain, every original arc whose HEAD is the popped
\* arc's TAIL is in the worklist afterwards; if it removed nothing, the
\* worklist is the previous one minus the popped arc; original_arcs does not
\* change.
C18_RequeueRule ==
    [][(pc = "arc_loop" /\ arcs # {}) =>
          /\ original_arcs' = original_arcs
          /\ \E a \in arcs :
                LET tail == domains[a.TAIL + 1]
                IN  /\ \A o \in DOMAIN heap : o # tail => heap'[o] = heap[o]
                    /\ heap'[tail] \subseteq heap[tail]
                    /\ IF heap'[tail] # heap[tail]
                       THEN /\ {o \in original_arcs : o.HEAD = a.TAIL} \subseteq arcs'
                            /\ arcs \ {a} \subseteq arcs'
                       ELSE arcs' = arcs \ {a}]_vars

\* A revision has shrunk the domain of an arc's tail; that arc is off the
\* worklist, which holds an arc into that tail.
C18_Witness ==
    /\ pc = "arc_loop"
    /\ Cardinality(original_arcs) = 4
    /\ \E a \in original_arcs \ arcs :
          /\ Domain(a.TAIL) # entry_domains[a.TAIL + 1]
          /\ \A d \in Domain(a.TAIL) : \E h \in Domain(a.HEAD) :
                is_satisfied_by_values(a.CONSTRAINT, d, h)
          /\ \E o \in arcs : o.HEAD = a.TAIL

\* The heap as it was when arc_consistency was entered: the domains hold
\* entry_domains again, every other object is as it is now.
EntryHeap ==
    [o \in DOMAIN heap |->
        IF \E i \in 1..Len(domains) : domains[i] = o
        THEN entry_domains[CHOOSE i \in 1..Len(domains) : domains[i] = o]
        ELSE heap[o]]

\* One fixed run of the while loop from heap h and worklist `work`: at every
\* step it pops the arc, and iterates the tail in the order, that CHOOSE
\* selects.  The heap at the end of the loop.
RECURSIVE ReferenceRun(_, _)
ReferenceRun(h, work) ==
    IF work = {}
    THEN h
    ELSE LET a == CHOOSE x \in work : TRUE
             order == CHOOSE o \in Orderings(h[domains[a.TAIL + 1]]) : TRUE
             r == remove_inconsistent_values(h, domains, a, order)
         IN  ReferenceRun(r.heap,
                          (work \ {a}) \cup Requeue(original_arcs, a, r.removed))

\* C19 (order independence): when the while loop of arc_consistency ends,
\* the domains are those the fixed reference run produces from the same
\* starting domains and arcs, whichever arcs the worklist popped.
C19_OrderIndependent ==
    (pc = "arc_loop" /\ arcs = {}) =>
        Contents(heap, domains) = Contents(ReferenceRun(EntryHeap, original_arcs), domains)

\* The loop has ended over four arcs after pruning the domains of two
\* meetings, neither of them to nothing.
C19_Witness ==
    /\ pc = "arc_loop"
    /\ arcs = {}
    /\ Cardinality(original_arcs) = 4
    /\ Contents(heap, domains) # entry_domains
    /\ \E i, j \in Meetings :
          /\ i # j
          /\ Domain(i) \notin {{}, entry_domains[i + 1]}
          /\ Domain(j) \notin {{}, entry_domains[j + 1]}

\* C20 (recursion on consistent partial assignments): at the entry of every
\* recursive_backtracker call, every constraint is satisfied by the current
\* partial assignment and every assigned date is in the pruned domain of
\* its position.
C20_RecursesOnConsistent ==
    (pc = "bt_call") =>
        /\ \A c \in constraints : is_satisfied_by_assignment(c, assignment)
        /\ Len(assignment) <= n_meetings
        /\ \A i \in 0..(Len(assignment) - 1) : assignment[i + 1] \in Domain(i)

\* A recursive call is entered with two meetings assigned, under a binary
\* constraint between them, after the filtering pruned their domains.
C20_Witness ==
    /\ pc = "bt_call"
    /\ Len(assignment) = 2
    /\ \E c \in constraints : arity(c) = 2 /\ c.L_VAL < 2 /\ c.R_VAL < 2
    /\ Domain(0) # date_range
    /\ Domain(1) # date_range

\* solve is inside the search: a recursive_backtracker call is being
\* entered, is in its loop, or is returning the list.
Searching == pc \in {"bt_call", "bt_loop", "bt_return"}

\* C21 (backtracking is pure undo): when a recursive_backtracker call
\* returns None, the assignment is what it was when that call was entered,
\* and it is empty when solve returns None; no step of the search changes
\* the domains.
C21_PureUndo ==
    /\ []((pc = "bt_loop" /\ frames[Len(frames)].todo = {}) =>
              assignment = frames[Len(frames)].entry)
    /\ []((pc = "done" /\ solution.isNone) => assignment = <<>>)
    /\ [][Searching => (heap' = heap /\ domains' = domains)]_vars

\* A nested call is about to return None after it tried, and popped, every
\* date of its non-empty domain, while the filtering emptied a later domain.
C21_Witness ==
    /\ pc = "bt_loop"
    /\ Len(frames) >= 2
    /\ frames[Len(frames)].todo = {}
    /\ assignment = frames[Len(frames)].entry
    /\ Len(assignment) >= 1
    /\ Domain(Len(assignment)) # {}
    /\ \E i \in Meetings : i > Len(assignment) /\ Domain(i) = {}

\* C22 (worklist invariant of AC-3): at the top of every iteration of the
\* while loop, every original arc that is not in the worklist is consistent
\* with the current domains: each date of its tail's domain has a date of
\* its head's domain with which the arc's constraint is satisfied.
C22_WorklistInvariant ==
    (pc = "arc_loop") =>
        \A a \in original_arcs \ arcs :
            LET ok(v, w) == is_satisfied_by_values(a.CONSTRAINT, v, w)
            IN  Supported(Contents(heap, domains), a.TAIL, a.HEAD, ok)

\* In the middle of the loop over four arcs, an arc is off the worklist
\* whose tail's domain was pruned, but not emptied, since the call.
C22_Witness ==
    /\ pc = "arc_loop"
    /\ arcs # {}
    /\ Cardinality(original_arcs) = 4
    /\ \E a \in original_arcs \ arcs :
          /\ Domain(a.TAIL) # {}
          /\ Domain(a.TAIL) # entry_domains[a.TAIL + 1]
          /\ Domain(a.HEAD) # entry_domains[a.HEAD + 1]

\* ---------------------------------------------- functions called on their own
\* The solver's variables while a single function is called on its own.
SolverIdle ==
    /\ n_meetings = 0
    /\ constraints = {}
    /\ heap = (0 :> {})
    /\ domains = <<>>
    /\ index = 0
    /\ arcs = {}
    /\ original_arcs = {}
    /\ assignment = <<>>
    /\ frames = <<>>
    /\ solution = Some(<<>>)
    /\ caller = "test"
    /\ calls = 0
    /\ entry_domains = <<>>

solverVars == <<n_meetings, constraints, heap, domains, index, arcs,
                original_arcs, assignment, frames, solution, caller, calls,
                entry_domains>>

\* Every DateConstraint over MaxMeetings meetings and the dates.
AnyConstraint ==
    {UnaryConstraint(l, op, d) : l \in 0..(MaxMeetings - 1), op \in Ops, d \in Dates}
    \cup
    {BinaryConstraint(l, op, r) :
        l \in 0..(MaxMeetings - 1), op \in Ops, r \in 0..(MaxMeetings - 1)}

\* Arc(constraint) is about to be called.
InitArc ==
    /\ pc = "arc_init"
    /\ args \in {<<c>> : c \in AnyConstraint}
    /\ result = <<>>
    /\ SolverIdle

\* Arc(constraint) returns the Arc or raises.
ArcConstruct ==
    /\ pc = "arc_init"
    /\ LET r == ArcInit(args[1])
       IN  /\ pc' = IF r.raised THEN "arc_raised" ELSE "arc_made"
           /\ result' = r.made
    /\ UNCHANGED <<args, solverVars>>

NextArc == ArcConstruct

SpecArc == InitArc /\ [][NextArc]_vars

\* C11 (Arc construction): constructing an Arc from a constraint whose arity
\* is not 2 raises and yields no Arc; constructing one from a binary
\* constraint yields the Arc of that constraint with TAIL = L_VAL and
\* HEAD = R_VAL.
C11_ArcConstruction ==
    (pc # "arc_init") =>
        IF args[1].ARITY = 2
        THEN /\ pc = "arc_made"
             /\ result = {[CONSTRAINT |-> args[1],
                           TAIL |-> args[1].L_VAL,
                           HEAD |-> args[1].R_VAL]}
        ELSE /\ pc = "arc_raised"
             /\ result = {}

\* Arc was called on a unary constraint and raised.
C11_Witness ==
    /\ pc = "arc_raised"
    /\ args[1].ARITY = 1
    /\ result = {}

\* ------------------------------------------ the filters called on their own
\* A test builds the domains itself, one copy of the range per meeting, and
\* then calls node_consistency and arc_consistency in any order.
InitTest ==
    /\ pc = "idle"
    /\ n_meetings \in 0..MaxMeetings
    /\ constraints \in ConstraintSets(n_meetings)
    /\ \E R \in DateRanges :
          LET made == CopyDomains((0 :> R), n_meetings)
          IN  /\ heap = made.heap
              /\ domains = made.domains
              /\ entry_domains = Contents(made.heap, made.domains)
    /\ index = 0
    /\ arcs = {}
    /\ original_arcs = {}
    /\ assignment = <<>>
    /\ frames = <<>>
    /\ solution = Some(<<>>)
    /\ caller = "test"
    /\ calls = 0
    /\ NoCall

\* The test calls node_consistency(domains, constraints).
TestCallNode ==
    /\ pc = "idle"
    /\ calls < MaxCalls
    /\ calls' = calls + 1
    /\ index' = 0
    /\ entry_domains' = Contents(heap, domains)
    /\ pc' = "node"
    /\ UNCHANGED <<n_meetings, constraints, heap, domains, arcs, original_arcs,
                   assignment, frames, solution, caller,
                   args, result>>

\* The test calls arc_consistency(domains, constraints).
TestCallArc ==
    /\ pc = "idle"
    /\ calls < MaxCalls
    /\ calls' = calls + 1
    /\ pc' = "arc"
    /\ UNCHANGED <<n_meetings, constraints, heap, domains, index, arcs,
                   original_arcs, assignment, frames, solution, caller,
                   entry_domains,
                   args, result>>

NextTest ==
    \/ TestCallNode
    \/ TestCallArc
    \/ NodeStep
    \/ NodeReturn
    \/ ArcBuild
    \/ ArcStep
    \/ ArcReturn

SpecTest == InitTest /\ [][NextTest]_vars

\* ---------------------------------------------------------- edit distance
\* Strings are sequences of letters; the inputs are all strings of up to
\* MaxLen letters.
Letters == {"a", "b", "c"}
Strings == UNION {[1..n -> Letters] : n \in 0..MaxLen}

\* table[r][c] of the Python list of lists.
At(table, r, c) == table[r + 1][c + 1]

\* min() of the candidates of a cell.
Min(S) == CHOOSE x \in S : \A y \in S : x <= y

\* The table after the two loops that write row 0 and column 0.
TableBorders(row_str, col_str) ==
    <<[k \in 1..(Len(col_str) + 1) |-> k - 1]>>
        \o [r \in 1..Len(row_str) |-> <<r>>]

\* The value appended for cell (row_index, col_index); a transposition that
\* does not apply is float('inf') and never the minimum.
TableEntry(table, row_str, col_str, row_index, col_index) ==
    IF col_str[col_index] = row_str[row_index]
    THEN At(table, row_index - 1, col_index - 1)
    ELSE LET replacement == At(table, row_index - 1, col_index - 1) + 1
             deletion == At(table, row_index - 1, col_index) + 1
             insertion == At(table, row_index, col_index - 1) + 1
             transposition ==
                 IF /\ row_index >= 2
                    /\ col_index >= 2
                    /\ col_str[col_index] = row_str[row_index - 1]
                    /\ col_str[col_index - 1] = row_str[row_index]
                 THEN {At(table, row_index - 2, col_index - 2) + 1}
                 ELSE {}
         IN  Min({replacement, insertion, deletion} \cup transposition)

\* The nested loops over row_index and col_index, from cell
\* (row_index, col_index) on.
RECURSIVE FillTable(_, _, _, _, _)
FillTable(table, row_str, col_str, row_index, col_index) ==
    IF row_index > Len(row_str)
    THEN table
    ELSE IF col_index > Len(col_str)
         THEN FillTable(table, row_str, col_str, row_index + 1, 1)
         ELSE FillTable([table EXCEPT ![row_index + 1] =
                            Append(@, TableEntry(table, row_str, col_str,
                                                 row_index, col_index))],
                        row_str, col_str, row_index, col_index + 1)

get_edit_dist_table(row_str, col_str) ==
    FillTable(TableBorders(row_str, col_str), row_str, col_str, 1, 1)

edit_distance(s0, s1) ==
    IF s0 = s1
    THEN 0
    ELSE At(get_edit_dist_table(s0, s1), Len(s0), Len(s1))

\* s[:-k]
DropLast(s, k) == SubSeq(s, 1, Len(s) - k)

\* recursion(s0, s1, table, transformations): the list returned, or
\* raised when no branch applies and the call would recurse on the same
\* arguments for ever (RecursionError).
RECURSIVE recursion(_, _, _, _)
recursion(s0, s1, table, transformations) ==
    LET n0 == Len(s0)
        n1 == Len(s1)
    IN  IF (n0 = 0 /\ n1 = 0) \/ At(table, n0, n1) = 0
        THEN [raised |-> FALSE, list |-> transformations]
        ELSE IF n0 > 0 /\ n1 > 0 /\ s0[n0] = s1[n1]
        THEN recursion(DropLast(s0, 1), DropLast(s1, 1), table, transformations)
        ELSE IF n0 >= 1 /\ n1 >= 1
                /\ At(table, n0, n1) = At(table, n0 - 1, n1 - 1) + 1
        THEN recursion(DropLast(s0, 1), DropLast(s1, 1), table,
                       Append(transformations, "R"))
        ELSE IF n0 >= 2 /\ n1 >= 2
                /\ s0[n0] = s1[n1 - 1] /\ s0[n0 - 1] = s1[n1]
        THEN recursion(DropLast(s0, 2), DropLast(s1, 2), table,
                       Append(transformations, "T"))
        ELSE IF n1 >= 1 /\ At(table, n0, n1) = At(table, n0, n1 - 1) + 1
        THEN recursion(s0, DropLast(s1, 1), table, Append(transformations, "I"))
        ELSE IF n0 >= 1 /\ At(table, n0, n1) = At(table, n0 - 1, n1) + 1
        THEN recursion(DropLast(s0, 1), s1, table, Append(transformations, "D"))
        ELSE [raised |-> TRUE, list |-> transformations]

get_transformation_list_with_table(s0, s1, table) ==
    recursion(s0, s1, table, <<>>)

get_transformation_list(s0, s1) ==
    get_transformation_list_with_table(s0, s1, get_edit_dist_table(s0, s1))

\* One of the three functions is called on a pair of strings.
InitEdit ==
    /\ pc = "edit_init"
    /\ args \in Strings \X Strings
    /\ result = <<>>
    /\ SolverIdle

CallTable ==
    /\ pc = "edit_init"
    /\ result' = get_edit_dist_table(args[1], args[2])
    /\ pc' = "table_done"
    /\ UNCHANGED <<args, solverVars>>

CallDistance ==
    /\ pc = "edit_init"
    /\ result' = <<edit_distance(args[1], args[2])>>
    /\ pc' = "distance_done"
    /\ UNCHANGED <<args, solverVars>>

CallTransformationList ==
    /\ pc = "edit_init"
    /\ LET r == get_transformation_list(args[1], args[2])
       IN  /\ result' = r.list
           /\ pc' = IF r.raised THEN "list_raised" ELSE "list_done"
    /\ UNCHANGED <<args, solverVars>>

NextEdit ==
    \/ CallTable
    \/ CallDistance
    \/ CallTransformationList

SpecEdit == InitEdit /\ [][NextEdit]_vars

\* The strings one manipulation away from s: an insertion, a deletion, a
\* replacement or a transposition of two adjacent letters.
OneEdit(s) ==
    LET n == Len(s)
        insertions == {SubSeq(s, 1, k) \o <<x>> \o SubSeq(s, k + 1, n) :
                          k \in 0..n, x \in Letters}
        deletions == {SubSeq(s, 1, k - 1) \o SubSeq(s, k + 1, n) : k \in 1..n}
        replacements == {[s EXCEPT ![k] = x] : k \in 1..n, x \in Letters}
        transpositions == {[s EXCEPT ![k] = s[k + 1], ![k + 1] = s[k]] :
                              k \in 1..(n - 1)}
    IN  {t \in insertions \cup deletions \cup replacements \cup transpositions :
            Len(t) <= MaxLen}

EditsOf == [s \in Strings |-> OneEdit(s)]

\* The least number of manipulations, through strings of at most MaxLen
\* letters, that turn a string of S into t, plus k.
RECURSIVE MinEditsFrom(_, _, _)
MinEditsFrom(S, t, k) ==
    IF t \in S
    THEN k
    ELSE MinEditsFrom(S \cup UNION {EditsOf[x] : x \in S}, t, k + 1)

MinEdits(s, t) == MinEditsFrom({s}, t, 0)

\* C13 (transformation list is minimal): get_transformation_list(s0, s1)
\* returns a list of the letters R, T, I and D only, whose length is
\* edit_distance(s0, s1).  (The preference R, T, I, D among lists of that
\* length is the order of the branches of recursion.)
C13_TransformationListMinimal ==
    (pc \in {"list_done", "list_raised"}) =>
        /\ pc = "list_done"
        /\ \A k \in 1..Len(result) : result[k] \in {"R", "T", "I", "D"}
        /\ Len(result) = edit_distance(args[1], args[2])

\* C14 (table semantics): every entry [i][j] of get_edit_dist_table is the
\* minimal number of insertions, deletions, replacements and adjacent
\* transpositions turning row_str[:i] into col_str[:j]; edit_distance is the
\* bottom-right entry, is 0 on equal strings, and is symmetric.
C14_TableIsMinimalEdits ==
    /\ (pc = "table_done") =>
          \A i \in 0..Len(args[1]), j \in 0..Len(args[2]) :
              At(result, i, j) = MinEdits(SubSeq(args[1], 1, i), SubSeq(args[2], 1, j))
    /\ (pc = "distance_done") =>
          /\ result[1] = At(get_edit_dist_table(args[1], args[2]),
                            Len(args[1]), Len(args[2]))
          /\ (args[1] = args[2]) => result[1] = 0
          /\ result[1] = edit_distance(args[2], args[1])

\* ------------------------------------------------------------- compression
ETB_CHAR == "ETB"

\* ord(char.lower()) on the letters of the corpus and on ETB_CHAR ("\x17").
OrdLower(char) ==
    CASE char = ETB_CHAR -> 23
      [] char = "a" -> 97
      [] char = "b" -> 98
      [] char = "c" -> 99

\* HuffmanNode(char, freq, zero_child, one_child); kids is empty for a leaf
\* (both children None) and <<zero_child, one_child>> otherwise.
HuffmanNode(char, freq, kids) == [char |-> char, freq |-> freq, kids |-> kids]

is_leaf(node) == node.kids = <<>>

\* HuffmanNode.__lt__
lt(self, other) ==
    IF self.freq # other.freq
    THEN self.freq < other.freq
    ELSE OrdLower(self.char) < OrdLower(other.char)

\* The frequencies dictionary of corpus + ETB_CHAR.
Frequencies(corpus) ==
    LET text == Append(corpus, ETB_CHAR)
    IN  [char \in {text[k] : k \in 1..Len(text)} |->
            Cardinality({k \in 1..Len(text) : text[k] = char})]

\* nodes.get(): the node of the priority queue that is less than the others.
QueueGet(nodes) == CHOOSE n \in nodes : \A o \in nodes \ {n} : lt(n, o)

\* The loop `while nodes.qsize() >= 2` and the final nodes.get().
RECURSIVE BuildTrie(_)
BuildTrie(nodes) ==
    IF Cardinality(nodes) >= 2
    THEN LET zero_child == QueueGet(nodes)
             one_child == QueueGet(nodes \ {zero_child})
             earliest_char ==
                 IF OrdLower(zero_child.char) < OrdLower(one_child.char)
                 THEN zero_child.char
                 ELSE one_child.char
             parent == HuffmanNode(earliest_char, zero_child.freq + one_child.freq,
                                   <<zero_child, one_child>>)
         IN  BuildTrie((nodes \ {zero_child, one_child}) \cup {parent})
    ELSE QueueGet(nodes)

\* _generate_encoding_map: the (char, code) entries written below `node`.
RECURSIVE generate_encoding_map(_, _)
generate_encoding_map(node, code) ==
    IF is_leaf(node)
    THEN {<<node.char, code>>}
    ELSE generate_encoding_map(node.kids[1], Append(code, 0))
             \cup generate_encoding_map(node.kids[2], Append(code, 1))

\* ReusableHuffman(corpus): the encoding map, and the trie root if the
\* constructor set the attribute (it does not for the empty corpus).
ReusableHuffman(corpus) ==
    IF corpus = <<>>
    THEN [encoding_map |-> (ETB_CHAR :> <<0>>), trie_root |-> {}]
    ELSE LET freqs == Frequencies(corpus)
             root == BuildTrie({HuffmanNode(char, freqs[char], <<>>) :
                                   char \in DOMAIN freqs})
             entries == generate_encoding_map(root, <<>>)
         IN  [encoding_map |->
                  [char \in {e[1] : e \in entries} |->
                      (CHOOSE e \in entries : e[1] = char)[2]],
              trie_root |-> {root}]

\* The concatenation of the sequences of a list.
RECURSIVE Concat(_)
Concat(list) == IF list = <<>> THEN <<>> ELSE Head(list) \o Concat(Tail(list))

\* int(bitstring, 2)
RECURSIVE BitsValue(_)
BitsValue(bits) ==
    IF bits = <<>>
    THEN 0
    ELSE 2 * BitsValue(SubSeq(bits, 1, Len(bits) - 1)) + bits[Len(bits)]

\* byte_utils.bitstrings_to_bytes: one byte, a number below 256, for each
\* bitstring of the list.
bitstrings_to_bytes(bitstring_list) ==
    [k \in 1..Len(bitstring_list) |-> BitsValue(bitstring_list[k])]

\* byte_utils.byte_to_bitstring: the eight bits of a byte, highest first.
byte_to_bitstring(byte) == [k \in 1..8 |-> (byte \div (2 ^ (8 - k))) % 2]

\* "0" * (8 - (len(bitstring) % 8))
Padding(bitstring) == [k \in 1..(8 - (Len(bitstring) % 8)) |-> 0]

compress_message(huff, message) ==
    LET coded == Concat([k \in 1..Len(message) |-> huff.encoding_map[message[k]]])
                     \o huff.encoding_map[ETB_CHAR]
        bitstring == coded \o Padding(coded)
        bitstring_list == [i \in 1..(Len(bitstring) \div 8) |->
                              SubSeq(bitstring, 8 * (i - 1) + 1, 8 * i)]
    IN  bitstrings_to_bytes(bitstring_list)

\* The loop `for bit in bitstring` of decompress from `bits` on.
RECURSIVE DecodeLoop(_, _, _, _)
DecodeLoop(root, current_node, bits, decoded) ==
    IF bits = <<>>
    THEN decoded
    ELSE LET bit == Head(bits)
             moved == IF ~is_leaf(current_node)
                      THEN current_node.kids[bit + 1]
                      ELSE current_node
         IN  IF is_leaf(moved)
             THEN IF moved.char = ETB_CHAR
                  THEN decoded
                  ELSE DecodeLoop(root, root, Tail(bits), Append(decoded, moved.char))
             ELSE DecodeLoop(root, moved, Tail(bits), decoded)

\* decompress: the string returned, or raised when self._trie_root was
\* never set (AttributeError).
decompress(huff, compressed_msg) ==
    LET bitstring == Concat([k \in 1..Len(compressed_msg) |->
                                byte_to_bitstring(compressed_msg[k])])
    IN  IF huff.trie_root = {}
        THEN [raised |-> TRUE, value |-> <<>>]
        ELSE LET root == CHOOSE r \in huff.trie_root : TRUE
             IN  [raised |-> FALSE,
                  value |-> DecodeLoop(root, root, bitstring, <<>>)]

\* A coder is fit to a corpus and compresses, then decompresses, a message
\* whose characters all occur in the corpus.
InitHuffman ==
    /\ pc = "huffman_init"
    /\ args \in {<<corpus, message>> : corpus \in Strings, message \in Strings}
    /\ \A k \in 1..Len(args[2]) : \E j \in 1..Len(args[1]) : args[1][j] = args[2][k]
    /\ result = <<>>
    /\ SolverIdle

Compress ==
    /\ pc = "huffman_init"
    /\ result' = compress_message(ReusableHuffman(args[1]), args[2])
    /\ pc' = "compressed"
    /\ UNCHANGED <<args, solverVars>>

Decompress ==
    /\ pc = "compressed"
    /\ LET r == decompress(ReusableHuffman(args[1]), result)
       IN  /\ result' = r.value
           /\ pc' = IF r.raised THEN "decompress_raised" ELSE "decompressed"
    /\ UNCHANGED <<args, solverVars>>

NextHuffman ==
    \/ Compress
    \/ Decompress

SpecHuffman == InitHuffman /\ [][NextHuffman]_vars

\* C15 (round trip): for every corpus, the empty one included, and every
\* message whose characters all occur in the corpus, decompressing the
\* compressed message returns the message.
C15_RoundTrip ==
    (pc \in {"decompressed", "decompress_raised"}) =>
        /\ pc = "decompressed"
        /\ result = args[2]

\* C16 (output format): the bits of compress_message's bytes are the codes
\* of the message's characters in order, then the code of ETB_CHAR, then
\* fewer than 8 padding bits, all 0; the bytes number ceil(L / 8) where L
\* counts the code bits, the ETB code included.
C16_CompressedFormat ==
    (pc = "compressed") =>
        LET map == ReusableHuffman(args[1]).encoding_map
            codes == Concat([k \in 1..Len(args[2]) |-> map[args[2][k]]])
                         \o map[ETB_CHAR]
            L == Len(codes)
            bits == Concat([k \in 1..Len(result) |-> byte_to_bitstring(result[k])])
        IN  /\ Len(bits) >= L
            /\ SubSeq(bits, 1, L) = codes
            /\ \A k \in (L + 1)..Len(bits) : bits[k] = 0
            /\ Len(bits) - L < 8
            /\ Len(result) = (L + 7) \div 8

\* ------------------------------------------------------------ T3 player
\* Utilities are doubled to stay in the integers: a loss is 0, a tie (0.5)
\* is 1 and a win is 2; float("inf") is Inf and float("-inf") is -Inf.
Inf == 3

\* T3Action(col, row, move)
T3Action(col, row, move) == [col |-> col, row |-> row, move |-> move]

\* A T3State as the player sees it: is_win(), is_tie() and the list
\* get_transitions() yields, each transition an <<action, next state>> pair.
T3State(win, tie, transitions) ==
    [win |-> win, tie |-> tie, transitions |-> transitions]

\* T3Node(action, utility_score, depth)
T3Node(action, utility_score, depth) ==
    [action |-> action, utility_score |-> utility_score, depth |-> depth]

\* tuple < tuple on (a, b, c, d, e) tuples.
RECURSIVE TupleLess(_, _)
TupleLess(x, y) ==
    /\ x # <<>>
    /\ \/ Head(x) < Head(y)
       \/ Head(x) = Head(y) /\ TupleLess(Tail(x), Tail(y))

check_best_option(option1, option2) ==
    LET optionA == <<-option1[1], option1[2], option1[3].col, option1[3].row,
                     option1[3].move>>
        optionB == <<-option2[1], option2[2], option2[3].col, option2[3].row,
                     option2[3].move>>
    IN  TupleLess(optionA, optionB)

Max(a, b) == IF a >= b THEN a ELSE b
Minimum(a, b) == IF a <= b THEN a ELSE b

\* alphabeta returns its tuple; `parent` is the caller's node object, which
\* the call assigns to, so the node as the call leaves it is returned too.
RECURSIVE alphabeta(_, _, _, _, _)
RECURSIVE AlphabetaLoop(_, _, _, _, _, _)

\* The for loop over state.get_transitions(), from `transitions` on, with
\* the one `child` node the loop reuses.
AlphabetaLoop(transitions, alpha, beta, odd_turn, parent, child) ==
    IF transitions = <<>>
    THEN [ret |-> <<parent.utility_score, parent.depth, parent.action>>,
          parent |-> parent]
    ELSE LET transition == Head(transitions)
             sub == alphabeta(transition[2], alpha, beta, ~odd_turn,
                              [child EXCEPT !.action = transition[1]])
             child2 == [sub.parent EXCEPT !.utility_score = sub.ret[1],
                                          !.depth = sub.ret[2]]
             better == check_best_option(
                           <<child2.utility_score, child2.depth, child2.action>>,
                           <<parent.utility_score, parent.depth, parent.action>>)
             parent2 == IF better
                        THEN [parent EXCEPT !.action = transition[1],
                                            !.depth = child2.depth]
                        ELSE parent
             parent3 == [parent2 EXCEPT !.utility_score =
                            IF odd_turn THEN Max(@, child2.utility_score)
                            ELSE Minimum(@, child2.utility_score)]
             alpha2 == IF odd_turn THEN Max(alpha, parent3.utility_score) ELSE alpha
             beta2 == IF odd_turn THEN beta ELSE Minimum(beta, parent3.utility_score)
         IN  IF beta2 <= alpha2
             THEN [ret |-> <<parent3.utility_score, parent3.depth, parent3.action>>,
                   parent |-> parent3]
             ELSE AlphabetaLoop(Tail(transitions), alpha2, beta2, odd_turn,
                                parent3, child2)

alphabeta(state, alpha, beta, odd_turn, parent) ==
    IF odd_turn /\ state.win
    THEN [ret |-> <<0, parent.depth, parent.action>>, parent |-> parent]
    ELSE IF ~odd_turn /\ state.win
    THEN [ret |-> <<2, parent.depth, parent.action>>, parent |-> parent]
    ELSE IF state.tie
    THEN [ret |-> <<1, parent.depth, parent.action>>, parent |-> parent]
    ELSE AlphabetaLoop(state.transitions, alpha, beta, odd_turn,
                       [parent EXCEPT !.utility_score =
                           IF odd_turn THEN -Inf ELSE Inf],
                       T3Node(parent.action, -Inf, parent.depth + 1))

\* choose: the empty set for None, or the set of the action returned.
choose(state) ==
    IF state.win \/ state.tie
    THEN {}
    ELSE {alphabeta(state, -Inf, Inf, TRUE,
                    T3Node(T3Action(0, 0, 0), 0, 0)).ret[3]}

\* The states choose is called on: game trees of at most d plies.  A
\* terminal state is a win or a tie; any other state has one or two
\* transitions, listed by ascending action.
ActionPool == {T3Action(0, 0, 1), T3Action(1, 0, 1)}

RECURSIVE States(_)
States(d) ==
    LET terminals == {T3State(TRUE, FALSE, <<>>), T3State(FALSE, TRUE, <<>>)}
    IN  IF d = 0
        THEN terminals
        ELSE LET below == States(d - 1)
                 one == {<<<<a, n>>>> : a \in ActionPool, n \in below}
                 two == {<<<<T3Action(0, 0, 1), n1>>, <<T3Action(1, 0, 1), n2>>>> :
                            n1 \in below, n2 \in below}
             IN  terminals \cup {T3State(FALSE, FALSE, ts) : ts \in one \cup two}

InitT3 ==
    /\ pc = "choose_init"
    /\ args \in {<<state>> : state \in States(MaxDepth)}
    /\ result = <<>>
    /\ SolverIdle

Choose ==
    /\ pc = "choose_init"
    /\ result' = choose(args[1])
    /\ pc' = "chosen"
    /\ UNCHANGED <<args, solverVars>>

NextT3 == Choose

SpecT3 == InitT3 /\ [][NextT3]_vars

\* Full minimax without pruning: the utility of `state` for the player
\* choose plays for, and the depth of the terminal reached, each player
\* taking the best utility for themselves and then the smallest depth.
RECURSIVE Minimax(_, _, _)
Minimax(state, max_turn, depth) ==
    IF state.win
    THEN <<IF max_turn THEN 0 ELSE 2, depth>>
    ELSE IF state.tie
    THEN <<1, depth>>
    ELSE LET values == {Minimax(state.transitions[k][2], ~max_turn, depth + 1) :
                           k \in 1..Len(state.transitions)}
             best == IF max_turn
                     THEN CHOOSE u \in {v[1] : v \in values} :
                              \A v \in values : v[1] <= u
                     ELSE CHOOSE u \in {v[1] : v \in values} :
                              \A v \in values : v[1] >= u
         IN  <<best, Min({v[2] : v \in {w \in values : w[1] = best}})>>

\* The action of the transition that is first on the ladder: best utility,
\* then smallest depth, then lowest col, row and move.
MinimaxChoice(state) ==
    LET rank(k) == LET v == Minimax(state.transitions[k][2], FALSE, 1)
                       a == state.transitions[k][1]
                   IN  <<-v[1], v[2], a.col, a.row, a.move>>
        first == CHOOSE k \in 1..Len(state.transitions) :
                     \A j \in 1..Len(state.transitions) :
                         j = k \/ TupleLess(rank(k), rank(j))
    IN  state.transitions[first][1]

\* C17 (choose is minimax): choose returns None on a terminal state, and on
\* any other state the action full minimax selects under the ladder: best
\* utility, then smallest depth of the terminal reached, then earliest move.
C17_ChooseIsMinimax ==
    (pc = "chosen") =>
        result = IF args[1].win \/ args[1].tie
                 THEN {}
                 ELSE {MinimaxChoice(args[1])}

====
